---- MODULE Spec2Model ----
(***************************************************************************)
(* Model of red-planet-core/src/board/system_bus.rs: the board's system    *)
(* bus (address validation, per-device admissibility, dispatch), the PLIC  *)
(* interrupt callback that holds a Weak reference to the bus, and the      *)
(* explicit release of the devices' allocator-managed storage.             *)
(*                                                                         *)
(* Integer widths are scaled: a u32 is AddrBits wide and a usize is twice  *)
(* that (as 64 is twice 32), so that every width-dependent branch of       *)
(* check_access (checked_sub, u32::try_from, the comparison against the    *)
(* end of the range) is reachable with numbers TLC can represent.          *)
(***************************************************************************)
EXTENDS Integers, Sequences, FiniteSets

\* ---- bounds ----
AddrBits == 7
MaxCalls == 2
MaxOwners == 2

U32_MAX == 2^AddrBits - 1
USIZE_MAX == 2^(2 * AddrBits) - 1

\* ---- Option<T> ----
None == <<>>
Some(x) == <<x>>

\* ---- types ----
Resource == {"Mrom", "Clint", "Plic", "Uart0", "Flash", "Dram", "PowerDown"}
AccessType == {"Read", "Write", "Execute"}
Devices == {"mrom", "clint", "plic", "uart0", "flash", "dram", "power_down"}

Range(start, end, value) == [start |-> start, end |-> end, value |-> value]

\* Two populated address maps (construction is outside the bus): MapA
\* attaches every device, leaves vacant regions, and ends its last region at
\* the top of the address space; MapB is a single region spanning all of it.
MapA ==
    { Range(0, 3, None),
      Range(4, 11, Some("Mrom")),
      Range(12, 15, None),
      Range(16, 31, Some("Clint")),
      Range(32, 39, Some("Plic")),
      Range(40, 43, Some("Uart0")),
      Range(44, 51, Some("Flash")),
      Range(52, 55, Some("PowerDown")),
      Range(56, U32_MAX - 8, None),
      Range(U32_MAX - 7, U32_MAX, Some("Dram")) }

MapB == { Range(0, U32_MAX, Some("Dram")) }

MemoryMaps == {MapA, MapB}

\* Inputs of the bus operations: one address in a vacant region, the first
\* address of every device region, and addresses at which an access ends
\* exactly on, or runs past, the end of a region (28 in the CLINT region,
\* U32_MAX - 3 and U32_MAX at the top of the address space); sizes on both
\* sides of every branch of check_access and of the table of accepts.
Addresses == { 0, 4, 16, 28, 32, 40, 44, 52, U32_MAX - 3, U32_MAX }
Sizes == { 0, 1, 2, 4, 8, U32_MAX + 2 }
Indices == { 0, 1, 52, 53, 255 }

\* Inputs of the pure functions: every address, and sizes up to usize::MAX.
AllAddresses == 0..U32_MAX
AllSizes == { 0, 1, 2, 4, 8, U32_MAX, U32_MAX + 1, U32_MAX + 2, USIZE_MAX }

VARIABLES memory_map, strong, callbacks, ncalls, buf, released, panicked, op

vars == <<memory_map, strong, callbacks, ncalls, buf, released, panicked, op>>

\* ---- the record of the operation just performed ----
NoOp ==
    [ name |-> "new", address |-> 0, size |-> 0, access_type |-> "Read",
      index |-> 0, check |-> None, accepted |-> FALSE, forwarded |-> <<>> ]

\* One invocation of a device operation.
Call(dev, fn, offset, len, index) ==
    [ dev |-> dev, fn |-> fn, offset |-> offset, len |-> len, index |-> index ]

\* ---- TwoWayAddressMap::range_value ----
range_value(address) ==
    LET r == CHOOSE r \in memory_map : r.start <= address /\ address <= r.end
    IN  << [start |-> r.start, end |-> r.end], r.value >>

u32_sub(a, b) == (a - b) % (U32_MAX + 1)

\* check_access with the comparison against the end of the range off by one.
check_access_off_by_one(address, size) ==
    LET rv == range_value(address)
        range == rv[1]
        value == rv[2]
    IN  IF value = None
        THEN None
        ELSE LET resource == value[1]
                 checked_sub == IF size >= 1 THEN Some(size - 1) ELSE None
                 try_from == IF checked_sub = None THEN None
                             ELSE IF checked_sub[1] <= U32_MAX
                                  THEN Some(checked_sub[1]) ELSE None
                 overrun == IF try_from = None THEN TRUE
                            ELSE u32_sub(range.end, address) <= try_from[1]
             IN  IF overrun
                 THEN None
                 ELSE Some(<<resource, u32_sub(address, range.start)>>)

\* ---- SystemBus::check_access ----
check_access(address, size) ==
    LET rv == range_value(address)
        range == rv[1]
        value == rv[2]
    IN  IF value = None
        THEN None
        ELSE LET resource == value[1]
                 checked_sub == IF size >= 1 THEN Some(size - 1) ELSE None
                 try_from == IF checked_sub = None THEN None
                             ELSE IF checked_sub[1] <= U32_MAX
                                  THEN Some(checked_sub[1]) ELSE None
                 overrun == IF try_from = None THEN TRUE
                            ELSE u32_sub(range.end, address) < try_from[1]
             IN  IF overrun
                 THEN None
                 ELSE Some(<<resource, u32_sub(address, range.start)>>)

\* bus_of with the flash arm returning the boot ROM.
bus_of_flash_is_mrom(resource) ==
    CASE resource = "Mrom" -> "mrom"
      [] resource = "Clint" -> "clint"
      [] resource = "Plic" -> "plic"
      [] resource = "Uart0" -> "uart0"
      [] resource = "Flash" -> "mrom"
      [] resource = "Dram" -> "dram"
      [] resource = "PowerDown" -> "power_down"

\* ---- SystemBus::bus_of ----
bus_of(resource) ==
    CASE resource = "Mrom" -> "mrom"
      [] resource = "Clint" -> "clint"
      [] resource = "Plic" -> "plic"
      [] resource = "Uart0" -> "uart0"
      [] resource = "Flash" -> "flash"
      [] resource = "Dram" -> "dram"
      [] resource = "PowerDown" -> "power_down"

\* accepts with the PLIC arm taking the CLINT's sizes.
accepts_value_plic_like_clint(address, size, access_type) ==
    LET c == check_access(address, size)
    IN  IF c = None
        THEN FALSE
        ELSE LET resource == c[1][1]
             IN  CASE resource = "Mrom" -> access_type # "Write"
                   [] resource = "Clint" -> size = 4 \/ size = 8
                   [] resource = "Plic" -> size = 4 \/ size = 8
                   [] resource = "Uart0" -> TRUE
                   [] resource = "Flash" -> access_type # "Write"
                   [] resource = "Dram" -> TRUE
                   [] resource = "PowerDown" -> access_type = "Write"

\* ---- the value returned by SystemBus::accepts ----
accepts_value(address, size, access_type) ==
    LET c == check_access(address, size)
    IN  IF c = None
        THEN FALSE
        ELSE LET resource == c[1][1]
             IN  CASE resource = "Mrom" -> access_type # "Write"
                   [] resource = "Clint" -> size = 4 \/ size = 8
                   [] resource = "Plic" -> size = 4
                   [] resource = "Uart0" -> TRUE
                   [] resource = "Flash" -> access_type # "Write"
                   [] resource = "Dram" -> TRUE
                   [] resource = "PowerDown" -> access_type = "Write"

Init ==
    /\ memory_map = MapA
    /\ strong = 1
    /\ callbacks = {}
    /\ ncalls = 0
    /\ buf = "prior"
    /\ released = <<>>
    /\ panicked = FALSE
    /\ op = NoOp

\* ---- <SystemBus as system_bus::SystemBus>::accepts ----
accepts(address, size, access_type) ==
    /\ ~panicked
    /\ strong > 0
    /\ op' = [NoOp EXCEPT !.name = "accepts", !.address = address,
                          !.size = size, !.access_type = access_type,
                          !.check = check_access(address, size),
                          !.accepted = accepts_value(address, size, access_type)]
    /\ UNCHANGED <<memory_map, strong, callbacks, ncalls, buf, released, panicked>>

\* read validating a one-byte access instead of the length of the buffer.
read_checks_one_byte(address, size) ==
    /\ ~panicked
    /\ strong > 0
    /\ LET c == check_access(address, 1)
           this == [NoOp EXCEPT !.name = "read", !.address = address,
                                !.size = size, !.check = c]
       IN  IF c # None
           THEN /\ ncalls < MaxCalls
                /\ op' = [this EXCEPT !.forwarded =
                            <<Call(bus_of(c[1][1]), "read", c[1][2], size, 0)>>]
                /\ ncalls' = ncalls + 1
                /\ buf' = "device"
           ELSE /\ op' = this
                /\ UNCHANGED <<ncalls, buf>>
    /\ UNCHANGED <<memory_map, strong, callbacks, released, panicked>>

\* read forwarding only what accepts admits.
read_consults_accepts(address, size) ==
    /\ ~panicked
    /\ strong > 0
    /\ LET c == check_access(address, size)
           this == [NoOp EXCEPT !.name = "read", !.address = address,
                                !.size = size, !.check = c]
       IN  IF c # None /\ accepts_value(address, size, "Read")
           THEN /\ ncalls < MaxCalls
                /\ op' = [this EXCEPT !.forwarded =
                            <<Call(bus_of(c[1][1]), "read", c[1][2], size, 0)>>]
                /\ ncalls' = ncalls + 1
                /\ buf' = "device"
           ELSE /\ op' = this
                /\ UNCHANGED <<ncalls, buf>>
    /\ UNCHANGED <<memory_map, strong, callbacks, released, panicked>>

\* ---- <SystemBus as Bus>::read ----
read(address, size) ==
    /\ ~panicked
    /\ strong > 0
    /\ LET c == check_access(address, size)
           this == [NoOp EXCEPT !.name = "read", !.address = address,
                                !.size = size, !.check = c]
       IN  IF c # None
           THEN /\ ncalls < MaxCalls
                /\ op' = [this EXCEPT !.forwarded =
                            <<Call(bus_of(c[1][1]), "read", c[1][2], size, 0)>>]
                /\ ncalls' = ncalls + 1
                /\ buf' = "device"
           ELSE /\ op' = this
                /\ UNCHANGED <<ncalls, buf>>
    /\ UNCHANGED <<memory_map, strong, callbacks, released, panicked>>

\* ---- <SystemBus as Bus>::read_debug ----
read_debug(address, size) ==
    /\ ~panicked
    /\ strong > 0
    /\ LET c == check_access(address, size)
           this == [NoOp EXCEPT !.name = "read_debug", !.address = address,
                                !.size = size, !.check = c]
       IN  IF c # None
           THEN /\ ncalls < MaxCalls
                /\ op' = [this EXCEPT !.forwarded =
                            <<Call(bus_of(c[1][1]), "read_debug", c[1][2], size, 0)>>]
                /\ ncalls' = ncalls + 1
                /\ buf' = "device"
           ELSE /\ op' = this
                /\ UNCHANGED <<ncalls, buf>>
    /\ UNCHANGED <<memory_map, strong, callbacks, released, panicked>>

\* write forwarding only what accepts admits.
write_consults_accepts(address, size) ==
    /\ ~panicked
    /\ strong > 0
    /\ LET c == check_access(address, size)
           this == [NoOp EXCEPT !.name = "write", !.address = address,
                                !.size = size, !.access_type = "Write",
                                !.check = c]
       IN  IF c # None /\ accepts_value(address, size, "Write")
           THEN /\ ncalls < MaxCalls
                /\ op' = [this EXCEPT !.forwarded =
                            <<Call(bus_of(c[1][1]), "write", c[1][2], size, 0)>>]
                /\ ncalls' = ncalls + 1
           ELSE /\ op' = this
                /\ UNCHANGED ncalls
    /\ UNCHANGED <<memory_map, strong, callbacks, buf, released, panicked>>

\* ---- <SystemBus as Bus>::write ----
write(address, size) ==
    /\ ~panicked
    /\ strong > 0
    /\ LET c == check_access(address, size)
           this == [NoOp EXCEPT !.name = "write", !.address = address,
                                !.size = size, !.access_type = "Write",
                                !.check = c]
       IN  IF c # None
           THEN /\ ncalls < MaxCalls
                /\ op' = [this EXCEPT !.forwarded =
                            <<Call(bus_of(c[1][1]), "write", c[1][2], size, 0)>>]
                /\ ncalls' = ncalls + 1
           ELSE /\ op' = this
                /\ UNCHANGED ncalls
    /\ UNCHANGED <<memory_map, strong, callbacks, buf, released, panicked>>

\* get_plic_irq_callback with the range check written 0..=52.
get_plic_irq_callback_from_zero(index) ==
    /\ ~panicked
    /\ op' = [NoOp EXCEPT !.name = "get_plic_irq_callback", !.index = index]
    /\ IF ~(0 <= index /\ index <= 52)
       THEN /\ panicked' = TRUE
            /\ UNCHANGED callbacks
       ELSE /\ callbacks' = callbacks \cup {[index |-> index]}
            /\ UNCHANGED panicked
    /\ UNCHANGED <<memory_map, strong, ncalls, buf, released>>

\* ---- SystemBus::get_plic_irq_callback ----
get_plic_irq_callback(index) ==
    /\ ~panicked
    /\ op' = [NoOp EXCEPT !.name = "get_plic_irq_callback", !.index = index]
    /\ IF ~(1 <= index /\ index <= 52)
       THEN /\ panicked' = TRUE
            /\ UNCHANGED callbacks
       ELSE /\ callbacks' = callbacks \cup {[index |-> index]}
            /\ UNCHANGED panicked
    /\ UNCHANGED <<memory_map, strong, ncalls, buf, released>>

\* ---- Weak::upgrade on PlicIrqCallback.bus ----
upgrade == IF strong > 0 THEN Some("bus") ELSE None

\* raise passing a zero-based channel (index - 1) to the PLIC.
raise_zero_based(self) ==
    /\ ~panicked
    /\ self \in callbacks
    /\ LET this == [NoOp EXCEPT !.name = "raise", !.index = self.index]
       IN  IF upgrade # None
           THEN /\ ncalls < MaxCalls
                /\ op' = [this EXCEPT !.forwarded =
                            <<Call("plic", "raise", 0, 0, self.index - 1)>>]
                /\ ncalls' = ncalls + 1
           ELSE /\ op' = this
                /\ UNCHANGED ncalls
    /\ UNCHANGED <<memory_map, strong, callbacks, buf, released, panicked>>

\* ---- <PlicIrqCallback as IrqCallback>::raise ----
raise(self) ==
    /\ ~panicked
    /\ self \in callbacks
    /\ LET this == [NoOp EXCEPT !.name = "raise", !.index = self.index]
       IN  IF upgrade # None
           THEN /\ ncalls < MaxCalls
                /\ op' = [this EXCEPT !.forwarded =
                            <<Call("plic", "raise", 0, 0, self.index)>>]
                /\ ncalls' = ncalls + 1
           ELSE /\ op' = this
                /\ UNCHANGED ncalls
    /\ UNCHANGED <<memory_map, strong, callbacks, buf, released, panicked>>

\* lower unwrapping the upgraded reference: it fails once the bus is gone.
lower_unwraps(self) ==
    /\ ~panicked
    /\ self \in callbacks
    /\ LET this == [NoOp EXCEPT !.name = "lower", !.index = self.index]
       IN  IF upgrade # None
           THEN /\ ncalls < MaxCalls
                /\ op' = [this EXCEPT !.forwarded =
                            <<Call("plic", "lower", 0, 0, self.index)>>]
                /\ ncalls' = ncalls + 1
                /\ UNCHANGED panicked
           ELSE /\ op' = this
                /\ panicked' = TRUE
                /\ UNCHANGED ncalls
    /\ UNCHANGED <<memory_map, strong, callbacks, buf, released>>

\* ---- <PlicIrqCallback as IrqCallback>::lower ----
lower(self) ==
    /\ ~panicked
    /\ self \in callbacks
    /\ LET this == [NoOp EXCEPT !.name = "lower", !.index = self.index]
       IN  IF upgrade # None
           THEN /\ ncalls < MaxCalls
                /\ op' = [this EXCEPT !.forwarded =
                            <<Call("plic", "lower", 0, 0, self.index)>>]
                /\ ncalls' = ncalls + 1
           ELSE /\ op' = this
                /\ UNCHANGED ncalls
    /\ UNCHANGED <<memory_map, strong, callbacks, buf, released, panicked>>

\* drop leaving out the flash.
drop_forgets_flash ==
    /\ ~panicked
    /\ strong = 1
    /\ released' = released \o <<"mrom", "clint", "plic", "uart0", "dram">>
    /\ strong' = 0
    /\ op' = [NoOp EXCEPT !.name = "drop"]
    /\ UNCHANGED <<memory_map, callbacks, ncalls, buf, panicked>>

\* ---- SystemBus::drop ----
drop ==
    /\ ~panicked
    /\ strong = 1
    /\ released' = released \o <<"mrom", "clint", "plic", "uart0", "flash", "dram">>
    /\ strong' = 0
    /\ op' = [NoOp EXCEPT !.name = "drop"]
    /\ UNCHANGED <<memory_map, callbacks, ncalls, buf, panicked>>

\* ---- strong owners of the bus (Rc) ----
rc_clone ==
    /\ ~panicked
    /\ strong > 0
    /\ strong < MaxOwners
    /\ strong' = strong + 1
    /\ op' = [NoOp EXCEPT !.name = "rc_clone"]
    /\ UNCHANGED <<memory_map, callbacks, ncalls, buf, released, panicked>>

rc_release ==
    /\ ~panicked
    /\ strong > 0
    /\ strong' = strong - 1
    /\ op' = [NoOp EXCEPT !.name = "rc_release"]
    /\ UNCHANGED <<memory_map, callbacks, ncalls, buf, released, panicked>>

Next ==
    \/ \E address \in Addresses, size \in Sizes, access_type \in AccessType :
          accepts(address, size, access_type)
    \/ \E address \in Addresses, size \in Sizes : read(address, size)
    \/ \E address \in Addresses, size \in Sizes : read_debug(address, size)
    \/ \E address \in Addresses, size \in Sizes : write(address, size)
    \/ \E index \in Indices : get_plic_irq_callback(index)
    \/ \E self \in callbacks : raise(self)
    \/ \E self \in callbacks : lower(self)
    \/ drop
    \/ rc_clone
    \/ rc_release

Spec == Init /\ [][Next]_vars

\* check_access and accepts as pure functions of (memory_map, address, size,
\* access_type): one evaluation on a newly constructed bus, for every map,
\* every address and every size.
InitPure ==
    /\ memory_map \in MemoryMaps
    /\ strong = 1
    /\ callbacks = {}
    /\ ncalls = 0
    /\ buf = "prior"
    /\ released = <<>>
    /\ panicked = FALSE
    /\ op = NoOp

NextPure ==
    /\ op.name = "new"
    /\ \E address \in AllAddresses, size \in AllSizes, access_type \in AccessType :
          accepts(address, size, access_type)

SpecPure == InitPure /\ [][NextPure]_vars


\* ---------------------------------------------------------------------
\* What the documentation says, stated without the code's definitions.
\* ---------------------------------------------------------------------

\* The region covering the address has a device, the access has at least one
\* byte, and its last byte (no wrap-around) is not past the end of the region.
Contained(address, size) ==
    LET rv == range_value(address)
    IN  /\ rv[2] # None
        /\ size >= 1
        /\ address + size - 1 <= rv[1].end

\* The table of accepts, by device.
Policy(resource, size, access_type) ==
    /\ resource \in {"Mrom", "Flash"} => access_type # "Write"
    /\ resource = "Clint" => size \in {4, 8}
    /\ resource = "Plic" => size = 4
    /\ resource = "PowerDown" => access_type = "Write"

\* The device each tag names.
DeviceOf ==
    { <<"Mrom", "mrom">>, <<"Clint", "clint">>, <<"Plic", "plic">>,
      <<"Uart0", "uart0">>, <<"Flash", "flash">>, <<"Dram", "dram">>,
      <<"PowerDown", "power_down">> }

AccessOps == {"read", "read_debug", "write"}
CallbackOps == {"raise", "lower"}
Direction(name) == IF name = "write" THEN "Write" ELSE "Read"
StorageDevices == {"mrom", "clint", "plic", "uart0", "flash", "dram"}
Times(d) == Cardinality({i \in DOMAIN released : released[i] = d})

\* C1: check_access returns (tag, address - range.start) exactly when the
\* covering range has a device, size >= 1 and address + size - 1, computed
\* without wrap-around, does not exceed the range's last address; in every
\* other case (size 0, size - 1 not fitting a u32, vacant range, overrun) it
\* returns nothing.
C1_CheckAccess ==
    op.name = "accepts" =>
        op.check = IF Contained(op.address, op.size)
                   THEN Some(<<range_value(op.address)[2][1],
                               op.address - range_value(op.address)[1].start>>)
                   ELSE None

\* A four-byte access ending exactly on the last address of the address space.
C1_Witness ==
    /\ op.name = "accepts"
    /\ op.address = U32_MAX - 3
    /\ op.size = 4
    /\ op.check = Some(<<"Dram", 4>>)

\* C2: when (address, buffer length) is not contained (vacant range, zero
\* length, or overrun of the covering range), read, read_debug and write
\* invoke no device operation and leave the buffer and every device as
\* they were.
C2_RejectedIsNoOp ==
    [][ (op'.name \in AccessOps /\ ~Contained(op'.address, op'.size))
          => /\ op'.forwarded = <<>>
             /\ UNCHANGED <<buf, ncalls, released, callbacks, strong, panicked>> ]_vars

\* A read that overruns the RAM region, made with a buffer an earlier read
\* had filled: the buffer still holds what it held.
C2_Witness ==
    /\ op.name = "read"
    /\ op.address = U32_MAX - 3
    /\ op.size = 8
    /\ op.forwarded = <<>>
    /\ buf = "device"
    /\ ncalls = 1

\* C3: accepts returns true exactly when the access is contained and the
\* rule of the device holds (boot ROM, flash: not a write; CLINT: size 4 or
\* 8; PLIC: size 4; UART, RAM: always; power-down register: a write).
C3_AcceptsTable ==
    op.name = "accepts" =>
        (op.accepted <=>
            /\ Contained(op.address, op.size)
            /\ Policy(range_value(op.address)[2][1], op.size, op.access_type))

\* A four-byte write to the timer region is accepted.
C3_Witness ==
    /\ op.name = "accepts"
    /\ memory_map = MapA
    /\ op.address = 16
    /\ op.size = 4
    /\ op.access_type = "Write"
    /\ op.accepted

\* C4 as stated: a read or write reaches a device exactly when accepts
\* returns true for the same address, size and direction.
C4_AcceptsAgreesWithAccess ==
    op.name \in {"read", "write"} =>
        (op.forwarded # <<>> <=>
            accepts_value(op.address, op.size, Direction(op.name)))

\* C4 amended: accepts == true implies the read or write reaches the
\* device; accepts == false implies no effect only when the access is not
\* contained, and a contained access that accepts refuses is still forwarded.
C4_AcceptsImpliesForwarded ==
    op.name \in {"read", "write"} =>
        LET a == accepts_value(op.address, op.size, Direction(op.name))
        IN  /\ a => op.forwarded # <<>>
            /\ ~a => (op.forwarded = <<>> <=> ~Contained(op.address, op.size))

\* A one-byte write to the boot ROM: refused by accepts, forwarded by write.
C4_Witness ==
    /\ op.name = "write"
    /\ op.address = 4
    /\ op.size = 1
    /\ ~accepts_value(4, 1, "Write")
    /\ op.forwarded = <<Call("mrom", "write", 0, 1, 0)>>

\* C5: read, read_debug and write forward every contained access with the
\* operation and the length they were called with, whatever the table of
\* accepts says about it.
C5_ForwardOnContainment ==
    (op.name \in AccessOps /\ Contained(op.address, op.size)) =>
        /\ Len(op.forwarded) = 1
        /\ op.forwarded[1].fn = op.name
        /\ op.forwarded[1].len = op.size

\* A read of the power-down register, which accepts refuses, is forwarded.
C5_Witness ==
    /\ op.name = "read"
    /\ op.address = 52
    /\ op.size = 2
    /\ ~Policy("PowerDown", 2, "Read")
    /\ op.forwarded = <<Call("power_down", "read", 0, 2, 0)>>

\* C6: get_plic_irq_callback panics and issues no callback for an index
\* outside [1, 52], and for an index in [1, 52] issues a callback bound to
\* that index, whether or not the bus is still alive.
C6_FactoryRange ==
    [][ op'.name = "get_plic_irq_callback"
          => IF op'.index \in 1..52
             THEN /\ ~panicked'
                  /\ callbacks' = callbacks \cup {[index |-> op'.index]}
             ELSE /\ panicked'
                  /\ callbacks' = callbacks ]_vars

\* Indices 1 and 52 have succeeded and index 53 then fails, on a dead bus.
C6_Witness ==
    /\ op.name = "get_plic_irq_callback"
    /\ op.index = 53
    /\ panicked
    /\ callbacks = {[index |-> 1], [index |-> 52]}
    /\ strong = 0

\* C7: once the bus has no strong owner, raise and lower on an issued
\* callback complete without failure, invoke nothing and change nothing.
C7_InertAfterRelease ==
    [][ (strong = 0 /\ op'.name \in CallbackOps)
          => /\ op'.forwarded = <<>>
             /\ ~panicked'
             /\ UNCHANGED <<ncalls, buf, released, strong, callbacks>> ]_vars

\* lower called after the bus was consumed by drop.
C7_Witness ==
    /\ strong = 0
    /\ released # <<>>
    /\ op.name = "lower"
    /\ op.forwarded = <<>>
    /\ ~panicked

\* C8: drop consumes the bus and releases the storage of the boot ROM,
\* CLINT, PLIC, UART, flash and RAM exactly once each, in that order, never
\* the power-down register; afterwards no bus operation takes place.
C8_DropReleasesOnce ==
    /\ op.name = "drop" => (released # <<>> /\ strong = 0)
    /\ released # <<>> =>
          /\ released = <<"mrom", "clint", "plic", "uart0", "flash", "dram">>
          /\ \A d \in StorageDevices : Times(d) = 1
          /\ Times("power_down") = 0
          /\ strong = 0
          /\ op.name \notin AccessOps \cup {"accepts", "rc_clone", "rc_release"}
          /\ op.forwarded = <<>>

\* The state drop leaves.
C8_Witness ==
    /\ op.name = "drop"
    /\ Len(released) = 6
    /\ strong = 0

\* C9: while the bus is strongly owned, raise (lower) on the callback made
\* with index i invokes the PLIC's raise (lower) once with channel i and
\* invokes nothing else.
C9_ForwardsOwnIndex ==
    [][ (strong > 0 /\ op'.name \in CallbackOps)
          => /\ [index |-> op'.index] \in callbacks
             /\ op'.forwarded = <<Call("plic", op'.name, 0, 0, op'.index)>>
             /\ ncalls' = ncalls + 1
             /\ UNCHANGED <<buf, released, strong, callbacks, panicked>> ]_vars

\* raise on the callback of channel 52 while the callback of channel 1 exists.
C9_Witness ==
    /\ strong > 0
    /\ op.name = "raise"
    /\ op.forwarded = <<Call("plic", "raise", 0, 0, 52)>>
    /\ [index |-> 1] \in callbacks

\* C10: a forwarded access goes to one device, the one the tag of the
\* covering range names, and its window [offset, offset + size - 1] with
\* offset = address - range.start lies within [0, range.end - range.start].
C10_OneDeviceInWindow ==
    (op.name \in AccessOps /\ op.forwarded # <<>>) =>
        LET rv == range_value(op.address)
            c == op.forwarded[1]
        IN  /\ Len(op.forwarded) = 1
            /\ rv[2] # None
            /\ <<rv[2][1], c.dev>> \in DeviceOf
            /\ c.offset = op.address - rv[1].start
            /\ c.offset >= 0
            /\ c.len >= 1
            /\ c.offset + c.len - 1 <= rv[1].end - rv[1].start

\* An eight-byte write that fills the flash region exactly.
C10_Witness ==
    /\ op.name = "write"
    /\ op.address = 44
    /\ op.size = 8
    /\ op.forwarded = <<Call("flash", "write", 0, 8, 0)>>
====
